---- MODULE Spec2Model ----
(***************************************************************************)
(* A model of the federated-learning strategy FedCustom (src/strategy.py): *)
(* the strategy object's cross-round state, the files it persists and one  *)
(* action per handler the round-issuing runtime calls.                     *)
(*                                                                         *)
(* Encodings                                                               *)
(*  - A client identifier client.cid is a decimal string; the model writes *)
(*    the number n for the string str(n).  A dictionary key that is the    *)
(*    Python int n and one that is the string str(n) are different keys:   *)
(*    client_cluster_mapping records which kind its keys have.             *)
(*  - Python positions are 0-based, sequences here are 1-based: position i *)
(*    of a Python list is element i + 1 of the sequence.                   *)
(*  - None is the empty tuple <<>> where the other values are tuples (a    *)
(*    label array, a parameter set); neither is ever empty in the code.    *)
(*  - Numbers are exact rationals <<numerator, denominator>>; floating     *)
(*    point rounding of np.mean is not modelled.                           *)
(*  - A metric value is counted in units of 0.0001, so that the text       *)
(*    written by the format ":.4f" is an integer number of units.          *)
(***************************************************************************)
EXTENDS Integers, Sequences, FiniteSets, TLC

\* ------------------------------------------------------------------ bounds
MaxCid == 2
MaxClients == 3
MaxRound == 2
MaxFrequency == 3
MaxClusters == 2
MaxRetries == 1
NumTensors == 2
MaxSimLevel == 1

CIDs == 0..MaxCid
SimLevels == 0..MaxSimLevel
ParamValues == {1, 3, 5}
ExampleValues == {1, 2}

None == <<>>

\* --------------------------------------------------------------- rationals
Abs(x) == IF x < 0 THEN -x ELSE x

RECURSIVE GCD(_, _)
GCD(a, b) == IF b = 0 THEN a ELSE GCD(b, a % b)

Norm(n, d) == LET g == GCD(Abs(n), d) IN <<n \div g, d \div g>>

R(n) == <<n, 1>>

RAdd(a, b) == Norm(a[1] * b[2] + b[1] * a[2], a[2] * b[2])

RMulInt(a, k) == Norm(a[1] * k, a[2])

RDivInt(a, k) == Norm(a[1], a[2] * k)

RECURSIVE RSum(_)
RSum(s) == IF s = <<>> THEN R(0) ELSE RAdd(s[1], RSum(Tail(s)))

\* ------------------------------------------------------------------- lists
Range(s) == {s[i] : i \in DOMAIN s}

Min(S) == CHOOSE x \in S : \A y \in S : x <= y

RECURSIVE SortedSeq(_)
SortedSeq(S) == IF S = {} THEN <<>> ELSE <<Min(S)>> \o SortedSeq(S \ {Min(S)})

\* The sequences of pairwise different elements of S, up to length n.
InjectiveSeqs(S, n) ==
    UNION {{s \in [1..k -> S] : \A i, j \in 1..k : i # j => s[i] # s[j]} : k \in 0..n}

\* np.mean(..., axis=0) over the tensors at one position of several
\* parameter sets, for every position (zip(*list)).
MeanOfParameters(plist) ==
    [t \in 1..NumTensors |->
        RDivInt(RSum([i \in 1..Len(plist) |-> plist[i][t]]), Len(plist))]

ZerosLike(params) == [t \in DOMAIN params |-> R(0)]

\* ------------------------------------------------------------------- state
VARIABLES
    dynamic_grouping,        \* Default.txt: dynamic_grouping (0 or 1)
    clustering_frequency,    \* Default.txt: clustering_frequency
    num_clusters,            \* constructor argument
    model_type,              \* constructor argument
    fraction_fit,            \* constructor argument, a rational <<num, den>>
    fraction_evaluate,       \* constructor argument, a rational <<num, den>>
    min_fit_clients,         \* constructor argument
    min_evaluate_clients,    \* constructor argument
    min_available_clients,   \* constructor argument
    cluster_labels,          \* self.cluster_labels: None or the label array
    client_cluster_mapping,  \* self.client_cluster_mapping (absent: kind "none")
    cluster_models,          \* self.cluster_models: key -> parameter set or None
    h5_file,                 \* cluster_assignments.h5: round -> group
    txt_file,                \* cluster_assignments.txt: the blocks appended
    accuracy_file,           \* accuracy_scores.ncol
    f1_score_file,           \* F1_scores.ncol
    logloss_file,            \* LogLoss_scores.ncol
    evaluation_file,         \* evaluation_loss.txt / aggregated_evaluation_loss.txt
    hardware_file,           \* hardware_resources.ncol
    resource_file,           \* resource_consumption.txt
    best_model_file,         \* best_cluster_model.pth: None or a parameter set
    poisoned_log_file,       \* poisoned_client_detection.txt: the reports
    server_round,            \* the round the runtime is in (0: before round 1)
    phase,                   \* the runtime's position in the round
    retries,                 \* aggregate steps the runtime has issued again
    global_parameters,       \* the runtime's current global model
    call,                    \* the last call: [op, server_round, results, ...]
    ret                      \* what the last call returned or raised

sampling == <<fraction_fit, fraction_evaluate, min_fit_clients,
              min_evaluate_clients, min_available_clients>>
config == <<dynamic_grouping, clustering_frequency, num_clusters, model_type, sampling>>
cluster_state == <<cluster_labels, client_cluster_mapping, cluster_models>>
assignment_files == <<h5_file, txt_file>>
score_files == <<accuracy_file, f1_score_file, logloss_file>>
evaluation_files == <<score_files, evaluation_file, hardware_file, resource_file,
                      best_model_file, poisoned_log_file>>
runtime == <<server_round, phase, retries, global_parameters>>
vars == <<config, cluster_state, assignment_files, evaluation_files, runtime,
          call, ret>>

ModelTypes == {"Image Classification", "Image Anomaly Detection"}

\* ------------------------------------------------------ SimilarityClusterer
\* sklearn's KMeans(n_clusters, random_state=0).fit_predict on n_samples rows:
\* it rejects n_clusters < 1 and n_samples < n_clusters with a ValueError and
\* otherwise returns one label in [0, n_clusters) per row; which one depends
\* on the similarity values, which the model leaves open.
KMeansFitPredict(n_samples, n_clusters) ==
    IF n_clusters < 1 \/ n_samples < n_clusters
    THEN {[raised |-> "ValueError", labels |-> None]}
    ELSE {[raised |-> "", labels |-> l] : l \in [1..n_samples -> 0..(n_clusters - 1)]}

\* cosine_similarity(flattened_parameters) depends on every element of the
\* updates, of which the model keeps NumTensors: the matrix is an input.  It
\* is symmetric with 1.0 (MaxSimLevel) on the diagonal; a matrix is given by
\* the level of every pair i < j.
SimilarityMatrices(n) ==
    [{p \in (1..n) \X (1..n) : p[1] < p[2]} -> SimLevels]

SimilarityAt(sim, i, j) ==
    IF i = j THEN MaxSimLevel ELSE IF i < j THEN sim[<<i, j>>] ELSE sim[<<j, i>>]

\* np.mean(similarity_matrix, axis=1), times the number of rows.
avg_similarities(sim, n) ==
    [i \in 1..n |-> RSum([j \in 1..n |-> R(SimilarityAt(sim, i, j))])[1]]

\* np.percentile(avg_similarities, 25), times 4: linear interpolation between
\* the sorted values around position 0.25 * (n - 1).
Percentile25x4(avg) ==
    LET n == Len(avg)
        \* the sorted values, by rank
        sorted == [r \in 1..n |->
                     CHOOSE v \in Range(avg) :
                        /\ Cardinality({i \in 1..n : avg[i] < v}) < r
                        /\ Cardinality({i \in 1..n : avg[i] <= v}) >= r]
        lo == (n - 1) \div 4
        fr == (n - 1) % 4
        hi == IF lo + 1 <= n - 1 THEN lo + 1 ELSE lo
    IN 4 * sorted[lo + 1] + fr * (sorted[hi + 1] - sorted[lo + 1])

\* An outlier test that takes in the clients at the threshold.
AtOrBelowThreshold(avg) ==
    LET threshold == Percentile25x4(avg)
    IN {i \in 1..Len(avg) : 4 * avg[i] <= threshold}

outlier_indices(avg) ==
    LET threshold == Percentile25x4(avg)
    IN {i \in 1..Len(avg) : 4 * avg[i] < threshold}

normal_indices(avg) ==
    LET threshold == Percentile25x4(avg)
    IN {i \in 1..Len(avg) : 4 * avg[i] >= threshold}

\* line 210: no outlier, or nothing but outliers.
NoSplit(num_clients, outliers) ==
    outliers = {} \/ Cardinality(outliers) = num_clients

\* The KMeans call assign_clusters_with_dynamic_threshold makes for these
\* average similarities: on all rows with num_clusters (lines 211-212), or on
\* the normal rows with num_clusters - 1 (lines 224-225).
KMeansCall(avg, k) ==
    IF NoSplit(Len(avg), outlier_indices(avg)) THEN KMeansFitPredict(Len(avg), k)
    ELSE KMeansFitPredict(Cardinality(normal_indices(avg)), k - 1)

OutlierLabel == 0

\* A mapping of the normal clusters that starts one label too high.
NormalLabelFromTwo(cluster) == cluster + 2

\* line 228: normal cluster c becomes label c + 1.
NormalLabel(cluster) == cluster + 1

\* assign_clusters_with_dynamic_threshold, given the rows' average
\* similarities and the outcome km of its KMeans call.
assign_clusters_with_dynamic_threshold(avg, k, km) ==
    LET outliers == outlier_indices(avg)
        normals == SortedSeq(normal_indices(avg))
    IN IF NoSplit(Len(avg), outliers) \/ km.raised # "" THEN km
       ELSE [raised |-> "",
             labels |-> [i \in 1..Len(avg) |->
                           IF i \in outliers THEN OutlierLabel
                           ELSE NormalLabel(
                                  km.labels[CHOOSE p \in DOMAIN normals : normals[p] = i])]]

\* What the clusterer can return for n updates: one outcome per similarity
\* matrix and KMeans result.
ClusteringOutcomes(n, k) ==
    UNION {{assign_clusters_with_dynamic_threshold(avg, k, km) : km \in KMeansCall(avg, k)} :
           avg \in {avg_similarities(sim, n) : sim \in SimilarityMatrices(n)}}

NotClustered == [raised |-> "", labels |-> None]

\* --------------------------------------------------- ClusterAssignmentStore
\* A cadence that leaves out the first round.
ClustersOnMultiples(r) == r % clustering_frequency = 0

\* line 137: server_round == 1 or server_round % self.clustering_frequency == 0
IsClusteringRound(r) == r = 1 \/ r % clustering_frequency = 0

NoMapping == [kind |-> "none", map |-> <<>>]

\* {i: cluster_labels[i] for i in range(num_models)}: keyed by the int i.
IndexMapping(labels, num_models) ==
    [kind |-> "int", map |-> [i \in 0..(num_models - 1) |-> labels[i + 1]]]

\* {client_id: cluster_labels[idx] for idx, client_id in enumerate(client_ids)}:
\* keyed by the cid strings.
CidMapping(client_ids, labels) ==
    [kind |-> "str",
     map |-> [c \in Range(client_ids) |->
                labels[CHOOSE idx \in DOMAIN client_ids : client_ids[idx] = c]]]

\* key in mapping, for a key of the given kind ("int" or "str").
HasKey(mapping, kind, key) == mapping.kind = kind /\ key \in DOMAIN mapping.map

MappingLen(mapping) == IF mapping.kind = "none" THEN 0 ELSE Cardinality(DOMAIN mapping.map)

\* ---------------------------------------------------------- ClusterAggregator
\* The members of each cluster in range(num_clusters), and the mean of every
\* cluster that has members, in cluster order: aggregated_parameters.
\* A partition that finds no member for any cluster.
NoMembers(parameters_list, labels, cluster) == <<>>

ClusterMembers(parameters_list, labels, cluster) ==
    SortedSeq({i \in DOMAIN parameters_list : labels[i] = cluster})

NonEmptyClusters(parameters_list, labels) ==
    SortedSeq({c \in 0..(num_clusters - 1) :
                 ClusterMembers(parameters_list, labels, c) # <<>>})

ClusterMean(parameters_list, labels, cluster) ==
    LET members == ClusterMembers(parameters_list, labels, cluster)
    IN MeanOfParameters([m \in 1..Len(members) |-> parameters_list[members[m]]])

\* An aggregation in which every update counts as a cluster of its own.
EveryUpdateItsOwnCluster(parameters_list, labels) == parameters_list

aggregated_parameters(parameters_list, labels) ==
    LET ne == NonEmptyClusters(parameters_list, labels)
    IN [j \in 1..Len(ne) |-> ClusterMean(parameters_list, labels, ne[j])]

\* {cluster: params for cluster, params in enumerate(aggregated_parameters)}
EnumerateModels(aggregated) == [c \in 0..(Len(aggregated) - 1) |-> aggregated[c + 1]]

\* The labels a non-clustering round uses:
\* [mapping.get(i, cluster_labels[i]) for i in range(num_models)].
ResolvedLabels(mapping, labels, num_models) ==
    [i \in 1..num_models |->
        IF HasKey(mapping, "int", i - 1) THEN mapping.map[i - 1] ELSE labels[i]]

\* A check that takes the stored labels as given.
LabelsTakenAsGiven(labels) == FALSE

\* line 153: cluster_labels is None.
NoLabelsYet(labels) == labels = None

\* aggregate_parameters for dynamic grouping: the strategy's fields after the
\* call, what it returns (final, labels) and the exception it raised, if any.
\* ac is what the clusterer returns if it is called.
aggregate_parameters(parameters_list, round, ac) ==
    LET num_models == Len(parameters_list)
        unchanged == [raised |-> "", self_labels |-> cluster_labels,
                      mapping |-> client_cluster_mapping, models |-> cluster_models,
                      final |-> None, labels |-> None]
        finish(self_labels, mapping, labels) ==
            LET agg == aggregated_parameters(parameters_list, labels)
            IN [raised |-> "", self_labels |-> self_labels, mapping |-> mapping,
                models |-> EnumerateModels(agg),
                final |-> IF agg # <<>> THEN MeanOfParameters(agg)
                          ELSE ZerosLike(parameters_list[1]),
                labels |-> labels]
    IN IF IsClusteringRound(round)
       THEN IF ac.raised # "" THEN [unchanged EXCEPT !.raised = ac.raised]
            ELSE finish(ac.labels, IndexMapping(ac.labels, num_models), ac.labels)
       ELSE IF NoLabelsYet(cluster_labels)
            THEN [unchanged EXCEPT !.raised = "ValueError"]
            ELSE IF num_models > Len(cluster_labels)
            THEN [unchanged EXCEPT !.raised = "IndexError"]
            ELSE LET mapping ==
                       IF client_cluster_mapping.kind = "none"
                          \/ MappingLen(client_cluster_mapping) < num_models
                       THEN IndexMapping(cluster_labels, num_models)
                       ELSE client_cluster_mapping
                 IN finish(cluster_labels, mapping,
                           ResolvedLabels(mapping, cluster_labels, num_models))

\* ------------------------------------------------ _save_cluster_assignments
\* dset[:] = values on an h5py dataset of fixed length: the values replace the
\* old ones when there are as many, one value is broadcast to every position,
\* and any other length is a TypeError ("Can't broadcast").
H5Assign(old, values) ==
    IF Len(values) = Len(old) THEN [raised |-> "", data |-> values]
    ELSE IF Len(values) = 1 THEN [raised |-> "", data |-> [i \in DOMAIN old |-> values[1]]]
    ELSE [raised |-> "TypeError", data |-> old]

\* A save that rebuilds the mapping on every round.
SaveRebuildsAlways(round) == TRUE

\* line 250: the rounds on which the mapping is rebuilt from the cid strings.
SaveRebuildsMapping(round) == IsClusteringRound(round)

\* The text log is opened in append mode: the block is added at the end.
TxtWrite(file, block) == Append(file, block)

\* _save_cluster_assignments(results, cluster_labels, server_round) when
\* dynamic grouping is on and cluster_labels is not None: the mapping and the
\* two files after the call, and the exception it raised, if any.
save_cluster_assignments(results, labels, round, mapping0) ==
    LET client_ids == SortedSeq({results[i].cid : i \in DOMAIN results})
        mapping == IF SaveRebuildsMapping(round) THEN CidMapping(client_ids, labels)
                   ELSE mapping0
        \* [self.client_cluster_mapping[cid] for cid in client_ids]
        missing == \E i \in DOMAIN client_ids : ~HasKey(mapping, "str", client_ids[i])
        looked_up == [i \in DOMAIN client_ids |-> mapping.map[client_ids[i]]]
        out(raised, h5, txt) == [raised |-> raised, mapping |-> mapping,
                                 h5 |-> h5, txt |-> txt]
        put(grp) == [r \in DOMAIN h5_file \cup {round} |->
                        IF r = round THEN grp ELSE h5_file[r]]
        block == [round |-> round,
                  entries |-> [i \in DOMAIN client_ids |->
                                 <<client_ids[i], looked_up[i]>>]]
    IN IF round \notin DOMAIN h5_file
       THEN \* lines 256-258: the group and its client_ids exist before the
            \* labels are looked up
            IF missing
            THEN out("KeyError",
                     put([client_ids |-> client_ids, has_labels |-> FALSE,
                          cluster_labels |-> <<>>]), txt_file)
            ELSE out("", put([client_ids |-> client_ids, has_labels |-> TRUE,
                              cluster_labels |-> looked_up]),
                     TxtWrite(txt_file, block))
       ELSE \* lines 260-262
            LET grp == h5_file[round]
                ids == H5Assign(grp.client_ids, client_ids)
                grp1 == [grp EXCEPT !.client_ids = ids.data]
            IN IF ids.raised # "" THEN out(ids.raised, h5_file, txt_file)
               ELSE IF missing \/ ~grp.has_labels THEN out("KeyError", put(grp1), txt_file)
               ELSE LET lbl == H5Assign(grp.cluster_labels, looked_up)
                    IN IF lbl.raised # "" THEN out(lbl.raised, put(grp1), txt_file)
                       ELSE out("", put([grp1 EXCEPT !.cluster_labels = lbl.data]),
                                TxtWrite(txt_file, block))

\* ------------------------------------------------------------ construction
\* The constructor's defaults.
DefaultSampling ==
    /\ fraction_fit = <<1, 1>>
    /\ fraction_evaluate = <<1, 1>>
    /\ min_fit_clients = 2
    /\ min_evaluate_clients = 2
    /\ min_available_clients = 2

\* The product rounded to the nearest integer.
SampleRounded(n, fraction) == (2 * n * fraction[1] + fraction[2]) \div (2 * fraction[2])

\* int(num_available_clients * fraction)
SampleFloor(n, fraction) == (n * fraction[1]) \div fraction[2]

Max(a, b) == IF a >= b THEN a ELSE b

\* initialize_parameters: the untrained network's parameters.
InitialParameters == [t \in 1..NumTensors |-> R(0)]

\* The last call made on the strategy: the operation, its round, the results
\* it was given, the clients the round's configure step sampled, the fit
\* results from which the cluster models in self.cluster_models were built,
\* and whether the call ran the clusterer (lines 137-145).
NoCall == [op |-> "init", round |-> 0, results |-> <<>>, sampled |-> <<>>, fitted |-> <<>>,
           clustered |-> FALSE]

Returned(op, raised, value) == [op |-> op, raised |-> raised, value |-> value]

\* The strategy after __init__, before the first round.  Plain mode reads
\* neither clustering_frequency nor num_clusters: it is built with 1 and 1.
Constructed(groupings, model_types) ==
    /\ dynamic_grouping \in groupings
    /\ clustering_frequency \in IF dynamic_grouping = 1 THEN 1..MaxFrequency ELSE {1}
    /\ num_clusters \in IF dynamic_grouping = 1 THEN 1..MaxClusters ELSE {1}
    /\ model_type \in model_types
    /\ DefaultSampling
    /\ cluster_labels = None
    /\ client_cluster_mapping = NoMapping
    /\ cluster_models = [c \in 0..(num_clusters - 1) |-> None]
    /\ h5_file = <<>>
    /\ txt_file = <<>>
    /\ accuracy_file = <<>>
    /\ f1_score_file = <<>>
    /\ logloss_file = <<>>
    /\ evaluation_file = <<>>
    /\ hardware_file = <<>>
    /\ resource_file = <<>>
    /\ best_model_file = None
    /\ poisoned_log_file = <<>>
    /\ server_round = 0
    /\ phase = "ConfiguringFit"
    /\ retries = 0
    /\ global_parameters = InitialParameters
    /\ call = NoCall
    /\ ret = Returned("init", "", None)

Init == Constructed({0, 1}, ModelTypes)

InitFit == Constructed({0, 1}, {"Image Classification"})

\* ------------------------------------------------------------ configure_fit
\* The parameters configure_fit puts in one client's FitIns, or the exception
\* the lookup raises.
FitParametersFor(cid, round, parameters) ==
    LET client_id == cid   \* int(client.cid)
    IN IF dynamic_grouping = 1 /\ round > 1
       THEN IF HasKey(client_cluster_mapping, "int", client_id)
            THEN LET cluster == client_cluster_mapping.map[client_id]
                 IN IF cluster \in DOMAIN cluster_models
                    THEN [raised |-> "", parameters |-> cluster_models[cluster]]
                    ELSE [raised |-> "KeyError", parameters |-> None]
            ELSE [raised |-> "", parameters |-> parameters]
       ELSE [raised |-> "", parameters |-> parameters]

\* client_manager.sample(num_clients, min_num_clients) of Flower's client
\* manager: num_clients of the available clients (none if there are fewer).
\* Every client is configured on its own, so the model lists a sample in
\* ascending order only.
Sample(available, num_clients) ==
    IF num_clients > Cardinality(available) THEN {<<>>}
    ELSE {SortedSeq(S) : S \in {T \in SUBSET available : Cardinality(T) = num_clients}}

configure_fit(round, parameters, clients) ==
    LET per == [i \in DOMAIN clients |-> FitParametersFor(clients[i], round, parameters)]
    IN IF \E i \in DOMAIN per : per[i].raised # ""
       THEN Returned("configure_fit", "KeyError", <<>>)
       ELSE Returned("configure_fit", "",
                     [i \in DOMAIN clients |->
                        [cid |-> clients[i], parameters |-> per[i].parameters]])

ConfigureFitUpTo(last_round) ==
    /\ phase \in {"ConfiguringFit", "RoundDone"}
    /\ server_round < last_round
    /\ server_round' = server_round + 1
    /\ phase' = "AggregatingFit"
    /\ \E available \in SUBSET CIDs :
         LET num_clients == Cardinality(available)
             sample_size == Max(SampleFloor(num_clients, fraction_fit), min_fit_clients)
         IN \/ /\ num_clients < min_fit_clients
               /\ call' = [op |-> "configure_fit", round |-> server_round',
                           results |-> <<>>, sampled |-> <<>>, fitted |-> call.fitted,
                           clustered |-> FALSE]
               /\ ret' = Returned("configure_fit", "", <<>>)
            \/ /\ num_clients >= min_fit_clients
               /\ \E clients \in Sample(available, sample_size) :
                    /\ call' = [op |-> "configure_fit", round |-> server_round',
                                results |-> <<>>, sampled |-> clients, fitted |-> call.fitted,
                                clustered |-> FALSE]
                    /\ ret' = configure_fit(server_round', global_parameters, clients)
    /\ UNCHANGED <<config, cluster_state, assignment_files, evaluation_files,
                   retries, global_parameters>>

\* -------------------------------------------------------------- aggregate_fit
FitResults ==
    {[cid |-> c, parameters |-> [t \in 1..NumTensors |-> R(v)], num_examples |-> e] :
        c \in CIDs, v \in ParamValues, e \in ExampleValues}

WithDistinctCids(S, n) ==
    {s \in UNION {[1..k -> S] : k \in 0..n} :
        \A i, j \in DOMAIN s : i # j => s[i].cid # s[j].cid}

\* An aggregation that weights every update by its num_examples (FedAvg).
ExampleWeightedAggregate(results) ==
    [t \in 1..NumTensors |->
        LET total == RSum([i \in DOMAIN results |->
                             RMulInt(results[i].parameters[t], results[i].num_examples)])
            examples == RSum([i \in DOMAIN results |-> R(results[i].num_examples)])[1]
        IN RDivInt(total, examples)]

\* Default global aggregation (line 295).
PlainAggregate(results) ==
    MeanOfParameters([i \in DOMAIN results |-> results[i].parameters])

\* The runtime issues an aggregate step once per round (Issue); issuing it
\* again for the same round, after it returned or raised, is a retry
\* (Reissue).  A step that raised has not completed: the round does not go on.
IsRetry(op) == call.op = op /\ call.round = server_round

Issue(op, at) ==
    /\ phase = at
    /\ ~IsRetry(op)
    /\ retries' = retries

Reissue(op) ==
    /\ IsRetry(op)
    /\ retries < MaxRetries
    /\ retries' = retries + 1

\* What the runtime does with aggregate_fit's return value: a non-null result
\* becomes the global model.
AdoptParameters(r) ==
    IF r.raised = "" /\ r.value # None THEN r.value ELSE global_parameters

AggregateFitEmpty ==
    /\ call' = [op |-> "aggregate_fit", round |-> server_round, results |-> <<>>,
                sampled |-> call.sampled, fitted |-> call.fitted,
                clustered |-> FALSE]
    /\ ret' = Returned("aggregate_fit", "", None)
    /\ phase' = "ConfiguringEval"
    /\ UNCHANGED <<config, cluster_state, assignment_files, evaluation_files,
                   server_round, global_parameters>>

AggregateFitPlain(results) ==
    /\ results # <<>>
    /\ dynamic_grouping # 1
    /\ call' = [op |-> "aggregate_fit", round |-> server_round, results |-> results,
                sampled |-> call.sampled, fitted |-> call.fitted,
                clustered |-> FALSE]
    /\ ret' = Returned("aggregate_fit", "", PlainAggregate(results))
    /\ phase' = "ConfiguringEval"
    /\ global_parameters' = AdoptParameters(ret')
    /\ UNCHANGED <<config, cluster_state, assignment_files, evaluation_files,
                   server_round>>

AggregateFitDynamic(results, ac) ==
    /\ results # <<>>
    /\ dynamic_grouping = 1
    /\ LET parameters_list == [i \in DOMAIN results |-> results[i].parameters]
           ap == aggregate_parameters(parameters_list, server_round, ac)
           sv == save_cluster_assignments(results, ap.labels, server_round, ap.mapping)
       IN /\ call' = [op |-> "aggregate_fit", round |-> server_round,
                      results |-> results, sampled |-> call.sampled,
                      fitted |-> IF ap.raised = "" THEN results ELSE call.fitted,
                      clustered |-> IsClusteringRound(server_round)]
          /\ cluster_models' = ap.models
          /\ IF ap.raised # ""
             THEN /\ ret' = Returned("aggregate_fit", ap.raised, None)
                  /\ cluster_labels' = ap.self_labels
                  /\ client_cluster_mapping' = ap.mapping
                  /\ UNCHANGED assignment_files
             ELSE /\ cluster_labels' = ap.labels
                  /\ client_cluster_mapping' = sv.mapping
                  /\ h5_file' = sv.h5
                  /\ txt_file' = sv.txt
                  /\ ret' = IF sv.raised # ""
                            THEN Returned("aggregate_fit", sv.raised, None)
                            ELSE Returned("aggregate_fit", "", ap.final)
    /\ phase' = IF ret'.raised = "" THEN "ConfiguringEval" ELSE phase
    /\ global_parameters' = AdoptParameters(ret')
    /\ UNCHANGED <<config, evaluation_files, server_round>>

\* -------------------------------------------------------- configure_evaluate
\* num_evaluation_clients / num_fit_clients
num_evaluation_clients(num_available_clients) ==
    <<Max(SampleFloor(num_available_clients, fraction_evaluate), min_evaluate_clients),
      min_available_clients>>

num_fit_clients(num_available_clients) ==
    <<Max(SampleFloor(num_available_clients, fraction_fit), min_fit_clients),
      min_available_clients>>

EvaluateParametersFor(cid, round, parameters) ==
    LET client_id == cid   \* int(client.cid)
    IN IF dynamic_grouping = 1 /\ round > 1
          /\ HasKey(client_cluster_mapping, "int", client_id)
          /\ client_cluster_mapping.map[client_id] \in DOMAIN cluster_models
          /\ cluster_models[client_cluster_mapping.map[client_id]] # None
       THEN cluster_models[client_cluster_mapping.map[client_id]]
       ELSE parameters

configure_evaluate(round, parameters, clients) ==
    Returned("configure_evaluate", "",
             [i \in DOMAIN clients |->
                [cid |-> clients[i],
                 parameters |-> EvaluateParametersFor(clients[i], round, parameters)]])

\* The client manager hands out a sample once min_available_clients clients
\* are connected.
ConfigureEvaluate ==
    /\ phase = "ConfiguringEval"
    /\ phase' = "AggregatingEval"
    /\ IF fraction_evaluate[1] = 0
       THEN /\ call' = [op |-> "configure_evaluate", round |-> server_round,
                        results |-> <<>>, sampled |-> <<>>, fitted |-> call.fitted,
                        clustered |-> FALSE]
            /\ ret' = Returned("configure_evaluate", "", <<>>)
       ELSE \E available \in SUBSET CIDs :
               /\ Cardinality(available) >= min_available_clients
               /\ \E clients \in Sample(available,
                                        num_evaluation_clients(Cardinality(available))[1]) :
                    /\ call' = [op |-> "configure_evaluate", round |-> server_round,
                                results |-> <<>>, sampled |-> clients, fitted |-> call.fitted,
                                clustered |-> FALSE]
                    /\ ret' = configure_evaluate(server_round, global_parameters, clients)
    /\ UNCHANGED <<config, cluster_state, assignment_files, evaluation_files,
                   server_round, retries, global_parameters>>

\* ---------------------------------------------------------- MetricsEvaluator
\* f"{value:.4f}" on a value counted in units of 0.0001: the nearest whole
\* number of units, a tie going to the even one.
Format4(q) ==
    LET fl == q[1] \div q[2]
        rem2 == 2 * (q[1] - fl * q[2])
    IN IF rem2 < q[2] THEN fl
       ELSE IF rem2 > q[2] THEN fl + 1
       ELSE IF fl % 2 = 0 THEN fl ELSE fl + 1

MetricNames == {"accuracy", "f1_score", "log_loss"}

\* A lookup that takes the last label for a client id past the array's end.
GroupIndexClamped(cid) ==
    cluster_labels[IF cid < Len(cluster_labels) THEN cid + 1 ELSE Len(cluster_labels)]

\* The cluster _compute_group_metrics books a client under.
GroupIndexOf(cid) == cluster_labels[(cid % Len(cluster_labels)) + 1]

\* _compute_group_metrics: per cluster in range(num_clusters), the
\* num_examples-weighted average of each metric, 0 for a cluster that
\* collected no examples.
compute_group_metrics(results) ==
    [idx \in 0..(num_clusters - 1) |->
        LET members == SortedSeq({i \in DOMAIN results : GroupIndexOf(results[i].cid) = idx})
            count == RSum([m \in 1..Len(members) |-> R(results[members[m]].num_examples)])[1]
        IN [name \in MetricNames |->
              LET total == RSum([m \in 1..Len(members) |->
                                   R(results[members[m]].metrics[name]
                                     * results[members[m]].num_examples)])[1]
              IN IF count > 0 THEN Norm(total, count) ELSE R(total)]]

RoundLine(round) == [kind |-> "round", round |-> round]

GroupLine(group_idx, metrics) ==
    [kind |-> "group", group |-> group_idx,
     accuracy |-> Format4(metrics["accuracy"]),
     f1_score |-> Format4(metrics["f1_score"]),
     log_loss |-> Format4(metrics["log_loss"])]

AggregatedLine(accuracy, f1, logloss) ==
    [kind |-> "aggregated", accuracy |-> Format4(accuracy),
     f1_score |-> Format4(f1), log_loss |-> Format4(logloss)]

RECURSIVE DecimalPrefix(_, _)
\* str(r) is a prefix of str(q)
DecimalPrefix(r, q) == q = r \/ (q >= 10 /\ DecimalPrefix(r, q \div 10))

\* f"Round {server_round}" in line
MentionsRound(line, round) == line.kind = "round" /\ DecimalPrefix(round, line.round)

RECURSIVE ScanLines(_, _, _, _, _)
\* The loop of _select_best_model from line i on: round_found, and the best
\* group and value so far (best_cluster None: <<>>).
ScanLines(lines, i, round, round_found, best) ==
    IF i > Len(lines) THEN best
    ELSE LET line == lines[i]
         IN IF MentionsRound(line, round)
            THEN ScanLines(lines, i + 1, round, TRUE, best)
            ELSE IF round_found /\ line.kind = "group"
            THEN IF best = <<>> \/ line.accuracy > best[2]
                 THEN ScanLines(lines, i + 1, round, round_found,
                                <<line.group, line.accuracy>>)
                 ELSE ScanLines(lines, i + 1, round, round_found, best)
            ELSE IF round_found /\ line.kind = "blank" THEN best
            ELSE ScanLines(lines, i + 1, round, round_found, best)

\* _select_best_model: (best_cluster - 1, best_performance), or ValueError.
select_best_model(round, lines) ==
    LET best == ScanLines(lines, 1, round, FALSE, <<>>)
    IN IF best = <<>> THEN [raised |-> "ValueError", cluster |-> -1, performance |-> 0]
       ELSE [raised |-> "", cluster |-> best[1] - 1, performance |-> best[2]]

\* _select_best_model_and_save: the best-model file after the call.
select_best_model_and_save(round, lines) ==
    LET sel == select_best_model(round, lines)
    IN IF sel.raised # "" THEN [raised |-> sel.raised, best_model |-> best_model_file]
       ELSE IF sel.cluster \notin DOMAIN cluster_models
       THEN [raised |-> "KeyError", best_model |-> best_model_file]
       ELSE IF cluster_models[sel.cluster] = None
       THEN [raised |-> "AttributeError", best_model |-> best_model_file]
       ELSE [raised |-> "", best_model |-> cluster_models[sel.cluster]]

\* --------------------------------------------------------- aggregate_evaluate
\* One block of a per-client score file: the header and the (cid, value)
\* lines, sorted by int(cid).  Only Image Classification collects scores.
ScoreBlock(round, results, name) ==
    LET ids == IF model_type = "Image Classification"
               THEN SortedSeq({results[i].cid : i \in DOMAIN results})
               ELSE <<>>
    IN [round |-> round,
        entries |-> [j \in DOMAIN ids |->
                       <<ids[j],
                         results[CHOOSE i \in DOMAIN results : results[i].cid = ids[j]]
                            .metrics[name]>>]]

\* total_<metric> / total_examples, or None.
AggregatedMetric(results, name) ==
    LET counted == IF model_type = "Image Classification" THEN DOMAIN results ELSE {}
        seq == SortedSeq(counted)
        total == RSum([j \in DOMAIN seq |->
                         R(results[seq[j]].metrics[name] * results[seq[j]].num_examples)])[1]
        total_examples == RSum([j \in DOMAIN seq |-> R(results[seq[j]].num_examples)])[1]
    IN IF total_examples > 0 THEN Norm(total, total_examples) ELSE None

\* The lines aggregate_evaluate appends to the evaluation summary file, and
\* the exception formatting them raises (a None formatted with ".4f").
SummaryLines(round, results) ==
    IF dynamic_grouping = 1 /\ cluster_labels # None
    THEN LET gm == compute_group_metrics(results)
         IN [raised |-> "",
             lines |-> <<RoundLine(round)>>
                       \o [g \in 1..num_clusters |-> GroupLine(g, gm[g - 1])]]
    ELSE IF AggregatedMetric(results, "accuracy") = None
    THEN [raised |-> "TypeError", lines |-> <<RoundLine(round)>>]
    ELSE [raised |-> "",
          lines |-> <<RoundLine(round),
                      AggregatedLine(AggregatedMetric(results, "accuracy"),
                                     AggregatedMetric(results, "f1_score"),
                                     AggregatedMetric(results, "log_loss"))>>]

\* A per-client score file is opened in append mode.
ScoreWrite(file, block) == Append(file, block)

\* The summary file is opened in append mode.
SummaryWrite(file, lines) == file \o lines

\* An aggregate_evaluate that goes on to the score files with no results.
AggregateEvaluateEmptyLogged ==
    /\ call' = [op |-> "aggregate_evaluate", round |-> server_round, results |-> <<>>,
                sampled |-> call.sampled, fitted |-> call.fitted,
                clustered |-> FALSE]
    /\ ret' = Returned("aggregate_evaluate", "", None)
    /\ phase' = "RoundDone"
    /\ accuracy_file' = ScoreWrite(accuracy_file, [round |-> server_round, entries |-> <<>>])
    /\ f1_score_file' = ScoreWrite(f1_score_file, [round |-> server_round, entries |-> <<>>])
    /\ logloss_file' = ScoreWrite(logloss_file, [round |-> server_round, entries |-> <<>>])
    /\ UNCHANGED <<config, cluster_state, assignment_files, evaluation_file,
                   hardware_file, resource_file, best_model_file,
                   poisoned_log_file, server_round,
                   global_parameters>>

\* lines 472-473: no results, nothing done.
AggregateEvaluateEmpty ==
    /\ call' = [op |-> "aggregate_evaluate", round |-> server_round, results |-> <<>>,
                sampled |-> call.sampled, fitted |-> call.fitted,
                clustered |-> FALSE]
    /\ ret' = Returned("aggregate_evaluate", "", None)
    /\ phase' = "RoundDone"
    /\ UNCHANGED <<config, cluster_state, assignment_files, evaluation_files,
                   server_round, global_parameters>>

AggregateEvaluateResults(results) ==
    /\ results # <<>>
    /\ call' = [op |-> "aggregate_evaluate", round |-> server_round,
                results |-> results, sampled |-> call.sampled, fitted |-> call.fitted,
                clustered |-> FALSE]
    \* log_all_clients_hardware_resources
    /\ hardware_file' = Append(hardware_file,
                               [round |-> server_round,
                                clients |-> [i \in DOMAIN results |-> results[i].cid]])
    /\ resource_file' = Append(resource_file, server_round)
    /\ accuracy_file' = ScoreWrite(accuracy_file, ScoreBlock(server_round, results, "accuracy"))
    /\ f1_score_file' = ScoreWrite(f1_score_file, ScoreBlock(server_round, results, "f1_score"))
    /\ logloss_file' = ScoreWrite(logloss_file, ScoreBlock(server_round, results, "log_loss"))
    /\ LET sm == SummaryLines(server_round, results)
           file == SummaryWrite(evaluation_file, sm.lines)
           sel == select_best_model_and_save(server_round, file)
       IN /\ evaluation_file' = file
          /\ IF sm.raised # ""
             THEN /\ ret' = Returned("aggregate_evaluate", sm.raised, None)
                  /\ UNCHANGED best_model_file
             ELSE IF dynamic_grouping = 1
             THEN /\ best_model_file' = sel.best_model
                  /\ ret' = IF sel.raised # ""
                            THEN Returned("aggregate_evaluate", sel.raised, None)
                            ELSE Returned("aggregate_evaluate", "",
                                          AggregatedMetric(results, "accuracy"))
             ELSE /\ ret' = Returned("aggregate_evaluate", "",
                                     AggregatedMetric(results, "accuracy"))
                  /\ UNCHANGED best_model_file
    /\ phase' = IF ret'.raised = "" THEN "RoundDone" ELSE phase
    /\ UNCHANGED <<config, cluster_state, assignment_files, poisoned_log_file,
                   server_round, global_parameters>>

\* ------------------------------------------------------------ client inputs
\* The update client c submits to a fit round.
ClientParameters(c) == [t \in 1..NumTensors |-> R(2 * c + 1)]

FitUpdate(c) == [cid |-> c, parameters |-> ClientParameters(c), num_examples |-> 1]

\* Results of a fit round: some clients' updates, in any order of arrival.
ArrivingFitResults ==
    {[i \in DOMAIN s |-> FitUpdate(s[i])] : s \in InjectiveSeqs(CIDs, MaxClients)}

\* What client c reports from an evaluation round.
ClientEvaluation(c) ==
    [cid |-> c, num_examples |-> 1,
     metrics |-> IF c % 2 = 0
                 THEN [accuracy |-> 8000, f1_score |-> 7000, log_loss |-> 5000]
                 ELSE [accuracy |-> 9100, f1_score |-> 8500, log_loss |-> 3000]]

\* Results of an evaluation round in which every sampled client reports.
EveryoneReports ==
    {[i \in DOMAIN call.sampled |-> ClientEvaluation(call.sampled[i])]}

\* The result lists the runtime can collect: from sampled clients only.
FromSampled(inputs) ==
    {r \in inputs : \A i \in DOMAIN r : r[i].cid \in Range(call.sampled)}

\* aggregate_fit on one of the given result lists.
aggregate_fit(inputs) ==
    \/ AggregateFitEmpty
    \/ /\ dynamic_grouping # 1
       /\ \E results \in FromSampled(inputs) \ {<<>>} : AggregateFitPlain(results)
    \/ /\ dynamic_grouping = 1
       /\ \E n \in 1..MaxClients :
            \E ac \in IF IsClusteringRound(server_round)
                      THEN ClusteringOutcomes(n, num_clusters)
                      ELSE {NotClustered} :
               \E results \in {r \in FromSampled(inputs) : Len(r) = n} :
                  AggregateFitDynamic(results, ac)

\* aggregate_evaluate on one of the given result lists.
aggregate_evaluate(inputs) ==
    \/ AggregateEvaluateEmpty
    \/ \E results \in FromSampled(inputs) \ {<<>>} : AggregateEvaluateResults(results)

ConfigureFit == ConfigureFitUpTo(MaxRound)

AggregateFit == Issue("aggregate_fit", "AggregatingFit") /\ aggregate_fit(ArrivingFitResults)

AggregateEvaluate ==
    Issue("aggregate_evaluate", "AggregatingEval") /\ aggregate_evaluate(EveryoneReports)

NoEvaluateResults == Issue("aggregate_evaluate", "AggregatingEval") /\ AggregateEvaluateEmpty

\* The orchestrator over MaxRound rounds whose evaluation collects no results.
NextFit ==
    \/ ConfigureFit
    \/ AggregateFit
    \/ ConfigureEvaluate
    \/ NoEvaluateResults

SpecFit == InitFit /\ [][NextFit]_vars

\* The orchestrator over MaxRound rounds, every step issued once.
NextRounds ==
    \/ ConfigureFit
    \/ AggregateFit
    \/ ConfigureEvaluate
    \/ AggregateEvaluate

SpecRounds == InitFit /\ [][NextRounds]_vars

\* The rounds of a run in which the runtime re-issues aggregate steps.
ReissueRounds == 1

ConfigureFitToReissue == ConfigureFitUpTo(ReissueRounds)

ReissueAggregateFit == Reissue("aggregate_fit") /\ aggregate_fit(ArrivingFitResults)

ReissueAggregateEvaluate ==
    Reissue("aggregate_evaluate") /\ aggregate_evaluate(EveryoneReports)

\* The orchestrator with a runtime that retries an aggregate step it has
\* already issued for the round, up to MaxRetries times in a run.
NextReissue ==
    \/ ConfigureFitToReissue
    \/ AggregateFit
    \/ ReissueAggregateFit
    \/ ConfigureEvaluate
    \/ AggregateEvaluate
    \/ ReissueAggregateEvaluate

SpecReissue == InitFit /\ [][NextReissue]_vars

\* ------------------------------------------------------- plain aggregation
InitMean == Constructed({0}, {"Image Classification"})

ConfigureFitOnce == ConfigureFitUpTo(1)

\* aggregate_fit with grouping disabled, on updates of any of ParamValues
\* trained on any of ExampleValues examples.
AggregateFitOfAnyExamples ==
    /\ Issue("aggregate_fit", "AggregatingFit")
    /\ \E results \in FromSampled(WithDistinctCids(FitResults, MaxClients)) \ {<<>>} :
         AggregateFitPlain(results)

NextMean ==
    \/ ConfigureFitOnce
    \/ AggregateFitOfAnyExamples

SpecMean == InitMean /\ [][NextMean]_vars

\* ------------------------------------------------------- evaluation summary
\* One round of a strategy of either model type, in which the clients of the
\* evaluation round report any number of test examples, none included.
TestExamples == {0} \cup ExampleValues

AnyExamplesReported ==
    {[i \in DOMAIN call.sampled |->
        [ClientEvaluation(call.sampled[i]) EXCEPT !.num_examples = examples[i]]] :
     examples \in [DOMAIN call.sampled -> TestExamples]}

AggregateEvaluateOfAnyExamples ==
    /\ Issue("aggregate_evaluate", "AggregatingEval")
    /\ aggregate_evaluate(AnyExamplesReported)

NextEvaluate ==
    \/ ConfigureFitOnce
    \/ AggregateFit
    \/ ConfigureEvaluate
    \/ AggregateEvaluateOfAnyExamples

SpecEvaluate == Init /\ [][NextEvaluate]_vars

\* ------------------------------------------------------ _select_best_model
\* The evaluation summaries aggregate_evaluate can have written in dynamic
\* grouping mode after some rounds: per round the header and then either one
\* Group line per cluster or, while there are no cluster labels, the
\* Aggregated line.
AccuracyLevels == {1000, 8000, 9100}

GroupBlocks(round, k) ==
    {<<RoundLine(round)>>
        \o [g \in 1..k |->
              GroupLine(g, [accuracy |-> R(acc[g]), f1_score |-> R(7000),
                            log_loss |-> R(5000)])] :
     acc \in [1..k -> AccuracyLevels]}

AggregatedBlock(round) ==
    <<RoundLine(round), AggregatedLine(R(8000), R(7000), R(5000))>>

\* The rounds a run may have logged: a round whose evaluation collected no
\* results leaves no block, and a run goes on past round 9.
LoggedRounds == {1, 2, 10}

RECURSIVE SummariesOf(_, _)
\* The summaries with one Group block for each of the rounds, in round order.
SummariesOf(rounds, k) ==
    IF rounds = {} THEN {<<>>}
    ELSE {block \o log : block \in GroupBlocks(Min(rounds), k),
                         log \in SummariesOf(rounds \ {Min(rounds)}, k)}

\* A run logs Group blocks once it has cluster labels; without labels the
\* first block it logs is an Aggregated one, on which selection fails.
ProducibleSummaries(k) ==
    UNION {SummariesOf(rounds, k) : rounds \in SUBSET LoggedRounds \ {{}}}
        \cup {AggregatedBlock(round) : round \in LoggedRounds}

\* A strategy in dynamic grouping mode whose evaluation summary holds the
\* blocks of some rounds of a run.
InitSelect ==
    /\ dynamic_grouping = 1
    /\ clustering_frequency = 1
    /\ num_clusters = MaxClusters
    /\ model_type = "Image Classification"
    /\ DefaultSampling
    /\ cluster_labels = None
    /\ client_cluster_mapping = NoMapping
    /\ cluster_models = [c \in 0..(num_clusters - 1) |-> None]
    /\ h5_file = <<>>
    /\ txt_file = <<>>
    /\ accuracy_file = <<>>
    /\ f1_score_file = <<>>
    /\ logloss_file = <<>>
    /\ evaluation_file \in ProducibleSummaries(num_clusters)
    /\ hardware_file = <<>>
    /\ resource_file = <<>>
    /\ best_model_file = None
    /\ poisoned_log_file = <<>>
    /\ server_round = 0
    /\ phase = "Selecting"
    /\ retries = 0
    /\ global_parameters = InitialParameters
    /\ call = NoCall
    /\ ret = Returned("init", "", None)

\* _select_best_model(server_round, evaluation_file_path) on the summary.
SelectBestModel ==
    /\ \E round \in LoggedRounds :
         LET sel == select_best_model(round, evaluation_file)
         IN /\ call' = [op |-> "_select_best_model", round |-> round,
                        results |-> <<>>, sampled |-> <<>>, fitted |-> <<>>,
                        clustered |-> FALSE]
            /\ ret' = Returned("_select_best_model", sel.raised,
                               IF sel.raised = "" THEN <<sel.cluster, sel.performance>>
                               ELSE None)
    /\ UNCHANGED <<config, cluster_state, assignment_files, evaluation_files, runtime>>

NextSelect == SelectBestModel

SpecSelect == InitSelect /\ [][NextSelect]_vars

\* ---------------------------------------------------------------- clusterer
\* A strategy asked to cluster the rows of a similarity matrix, with up to
\* one cluster more than the clients a round can have.
InitCluster ==
    /\ dynamic_grouping = 1
    /\ clustering_frequency = 1
    /\ num_clusters \in 1..(MaxClusters + 1)
    /\ model_type = "Image Classification"
    /\ DefaultSampling
    /\ cluster_labels = None
    /\ client_cluster_mapping = NoMapping
    /\ cluster_models = [c \in 0..(num_clusters - 1) |-> None]
    /\ h5_file = <<>>
    /\ txt_file = <<>>
    /\ accuracy_file = <<>>
    /\ f1_score_file = <<>>
    /\ logloss_file = <<>>
    /\ evaluation_file = <<>>
    /\ hardware_file = <<>>
    /\ resource_file = <<>>
    /\ best_model_file = None
    /\ poisoned_log_file = <<>>
    /\ server_round = 0
    /\ phase = "Clustering"
    /\ retries = 0
    /\ global_parameters = InitialParameters
    /\ call = NoCall
    /\ ret = Returned("init", "", None)

\* assign_clusters_with_dynamic_threshold(similarity_matrix, num_clusters);
\* the call keeps the matrix and what its KMeans call returned.
AssignClusters ==
    /\ phase = "Clustering"
    /\ phase' = "Clustered"
    /\ \E n \in 1..MaxClients :
         \E sim \in SimilarityMatrices(n) :
            LET avg == avg_similarities(sim, n)
            IN \E km \in KMeansCall(avg, num_clusters) :
                  LET out == assign_clusters_with_dynamic_threshold(avg, num_clusters, km)
                  IN /\ call' = [op |-> "assign_clusters_with_dynamic_threshold",
                                 round |-> server_round,
                                 results |-> [num_clients |-> n,
                                              similarity_matrix |-> sim,
                                              kmeans |-> km],
                                 sampled |-> <<>>, fitted |-> <<>>,
                                 clustered |-> TRUE]
                     /\ ret' = Returned("assign_clusters_with_dynamic_threshold",
                                        out.raised, out.labels)
    /\ UNCHANGED <<config, cluster_state, assignment_files, evaluation_files,
                   server_round, retries, global_parameters>>

NextCluster == AssignClusters

SpecCluster == InitCluster /\ [][NextCluster]_vars

\* --------------------------------------------------------------- best model
\* Rounds of a strategy with one cluster more than the other runs have, and
\* the longest clustering interval: a cluster between two others can be
\* empty, and round 2 is not a clustering round.
InitBest ==
    /\ dynamic_grouping \in {0, 1}
    /\ clustering_frequency = MaxFrequency
    /\ num_clusters = IF dynamic_grouping = 1 THEN MaxClusters + 1 ELSE 1
    /\ model_type = "Image Classification"
    /\ DefaultSampling
    /\ cluster_labels = None
    /\ client_cluster_mapping = NoMapping
    /\ cluster_models = [c \in 0..(num_clusters - 1) |-> None]
    /\ h5_file = <<>>
    /\ txt_file = <<>>
    /\ accuracy_file = <<>>
    /\ f1_score_file = <<>>
    /\ logloss_file = <<>>
    /\ evaluation_file = <<>>
    /\ hardware_file = <<>>
    /\ resource_file = <<>>
    /\ best_model_file = None
    /\ poisoned_log_file = <<>>
    /\ server_round = 0
    /\ phase = "ConfiguringFit"
    /\ retries = 0
    /\ global_parameters = InitialParameters
    /\ call = NoCall
    /\ ret = Returned("init", "", None)

SpecBest == InitBest /\ [][NextRounds]_vars

\* ------------------------------------------------------------ PoisonDetector
\* For the detector a tensor keeps two elements, so that the cosine similarity
\* of two tensors is more than a sign.  The tensors are chosen with a whole
\* length: the similarities are exact rationals.
LastLayers == {<<1, 0>>, <<0, 1>>, <<-1, 0>>, <<3, 4>>, <<0, 0>>}

Dot(u, v) == u[1] * v[1] + u[2] * v[2]

Length(u) == CHOOSE r \in 0..(Abs(u[1]) + Abs(u[2])) : r * r = Dot(u, u)

RLess(a, b) == a[1] * b[2] < b[1] * a[2]

\* sklearn's cosine_similarity of two rows; a row of zeros has similarity 0.
cosine_similarity(u, v) ==
    IF Length(u) = 0 \/ Length(v) = 0 THEN R(0)
    ELSE Norm(Dot(u, v), Length(u) * Length(v))

\* next(reversed(state_dict.values())): the last tensor in declaration order.
LastLayer(params) == params[Len(params)]

\* A model whose last tensor is v.
ModelEndingIn(v) == [t \in 1..NumTensors |-> IF t = NumTensors THEN v ELSE <<1, 0>>]

\* client_scores: a dict, so a client_id keeps the place of its first update
\* and the similarity of its last one.
ScoredClients(local_updates) ==
    LET first == {i \in DOMAIN local_updates :
                    \A j \in 1..(i - 1) :
                       local_updates[j].client_id # local_updates[i].client_id}
        seq == SortedSeq(first)
    IN [p \in DOMAIN seq |-> local_updates[seq[p]].client_id]

client_scores(best_last_layer, local_updates) ==
    [c \in {local_updates[i].client_id : i \in DOMAIN local_updates} |->
        LET last == CHOOSE i \in DOMAIN local_updates :
                       /\ local_updates[i].client_id = c
                       /\ \A j \in DOMAIN local_updates :
                             local_updates[j].client_id = c => j <= i
        IN cosine_similarity(best_last_layer, LastLayer(local_updates[last].model))]

\* The first client in the dict's order with the highest score.
MostSimilar(order, scores) ==
    order[Min({i \in DOMAIN order :
                 \A j \in DOMAIN order : ~RLess(scores[order[i]], scores[order[j]])})]

\* line 611: min(client_scores, key=client_scores.get), the first client in
\* the dict's order with the lowest score.
LeastSimilar(order, scores) ==
    order[Min({i \in DOMAIN order :
                 \A j \in DOMAIN order : ~RLess(scores[order[j]], scores[order[i]])})]

\* A detector that takes every model type.
SupportsEveryModelType == TRUE

\* line 590: only Image Classification has poison detection.
SupportsPoisonDetection == model_type = "Image Classification"

\* detect_potential_poisoned_client: the exception raised, if any, and the
\* detection log after the call.
detect_potential_poisoned_client(round, local_updates) ==
    IF ~SupportsPoisonDetection
    THEN [raised |-> "ValueError", log |-> poisoned_log_file]
    ELSE IF best_model_file = None
    THEN [raised |-> "FileNotFoundError", log |-> poisoned_log_file]
    ELSE IF local_updates = <<>>
    THEN [raised |-> "ValueError", log |-> poisoned_log_file]
    ELSE LET scores == client_scores(LastLayer(best_model_file), local_updates)
             flagged == LeastSimilar(ScoredClients(local_updates), scores)
         IN [raised |-> "",
             log |-> Append(poisoned_log_file,
                            [round |-> round, potential_poisoned_client |-> flagged,
                             similarity_scores |-> scores])]

\* The candidate updates handed to the detector: one per client.
LocalUpdates ==
    {[i \in DOMAIN ids |-> [client_id |-> ids[i], model |-> ModelEndingIn(last[i])]] :
        ids \in InjectiveSeqs(CIDs, MaxClients), last \in [1..MaxClients -> LastLayers]}

\* A strategy whose best-model file is absent or holds a model, and whose
\* detection log is empty or holds an earlier report.
InitPoison ==
    /\ dynamic_grouping = 1
    /\ clustering_frequency = 1
    /\ num_clusters = MaxClusters
    /\ model_type \in ModelTypes
    /\ DefaultSampling
    /\ cluster_labels = None
    /\ client_cluster_mapping = NoMapping
    /\ cluster_models = [c \in 0..(num_clusters - 1) |-> None]
    /\ h5_file = <<>>
    /\ txt_file = <<>>
    /\ accuracy_file = <<>>
    /\ f1_score_file = <<>>
    /\ logloss_file = <<>>
    /\ evaluation_file = <<>>
    /\ hardware_file = <<>>
    /\ resource_file = <<>>
    /\ best_model_file \in {None} \cup {ModelEndingIn(v) : v \in {<<1, 0>>, <<3, 4>>}}
    /\ poisoned_log_file \in
         {<<>>, <<[round |-> 1, potential_poisoned_client |-> 0,
                   similarity_scores |-> [c \in {0} |-> R(1)]]>>}
    /\ server_round = 0
    /\ phase = "Detecting"
    /\ retries = 0
    /\ global_parameters = InitialParameters
    /\ call = NoCall
    /\ ret = Returned("init", "", None)

DetectPotentialPoisonedClient ==
    /\ phase = "Detecting"
    /\ phase' = "Detected"
    /\ \E round \in 1..MaxRound, local_updates \in LocalUpdates :
         LET d == detect_potential_poisoned_client(round, local_updates)
         IN /\ call' = [op |-> "detect_potential_poisoned_client", round |-> round,
                        results |-> local_updates, sampled |-> <<>>, fitted |-> <<>>,
                        clustered |-> FALSE]
            /\ ret' = Returned("detect_potential_poisoned_client", d.raised, None)
            /\ poisoned_log_file' = d.log
    /\ UNCHANGED <<config, cluster_state, assignment_files, score_files,
                   evaluation_file, hardware_file, resource_file, best_model_file,
                   server_round, retries, global_parameters>>

NextPoison == DetectPotentialPoisonedClient

SpecPoison == InitPoison /\ [][NextPoison]_vars

\* ----------------------------------------------------------------- sampling
\* A strategy constructed with any sampling arguments, asked for its sample
\* sizes.  The fractions are exact rationals in [0, 1].
MaxAvailable == 10

Fractions == {<<0, 1>>, <<1, 10>>, <<1, 3>>, <<1, 2>>, <<1, 1>>}

MinClients == 1..3

InitSample ==
    /\ dynamic_grouping = 0
    /\ clustering_frequency = 1
    /\ num_clusters = 1
    /\ model_type = "Image Classification"
    /\ fraction_fit \in Fractions
    /\ fraction_evaluate \in Fractions
    /\ min_fit_clients \in MinClients
    /\ min_evaluate_clients \in MinClients
    /\ min_available_clients \in MinClients
    /\ cluster_labels = None
    /\ client_cluster_mapping = NoMapping
    /\ cluster_models = [c \in 0..(num_clusters - 1) |-> None]
    /\ h5_file = <<>>
    /\ txt_file = <<>>
    /\ accuracy_file = <<>>
    /\ f1_score_file = <<>>
    /\ logloss_file = <<>>
    /\ evaluation_file = <<>>
    /\ hardware_file = <<>>
    /\ resource_file = <<>>
    /\ best_model_file = None
    /\ poisoned_log_file = <<>>
    /\ server_round = 0
    /\ phase = "Sampling"
    /\ retries = 0
    /\ global_parameters = InitialParameters
    /\ call = NoCall
    /\ ret = Returned("init", "", None)

\* The calls, with the argument in the place of the results.
NumFitClients ==
    /\ phase = "Sampling"
    /\ phase' = "Sampled"
    /\ \E n \in 0..MaxAvailable :
         /\ call' = [op |-> "num_fit_clients", round |-> server_round,
                     results |-> n, sampled |-> <<>>, fitted |-> <<>>,
                     clustered |-> FALSE]
         /\ ret' = Returned("num_fit_clients", "", num_fit_clients(n))
    /\ UNCHANGED <<config, cluster_state, assignment_files, evaluation_files,
                   server_round, retries, global_parameters>>

NumEvaluationClients ==
    /\ phase = "Sampling"
    /\ phase' = "Sampled"
    /\ \E n \in 0..MaxAvailable :
         /\ call' = [op |-> "num_evaluation_clients", round |-> server_round,
                     results |-> n, sampled |-> <<>>, fitted |-> <<>>,
                     clustered |-> FALSE]
         /\ ret' = Returned("num_evaluation_clients", "", num_evaluation_clients(n))
    /\ UNCHANGED <<config, cluster_state, assignment_files, evaluation_files,
                   server_round, retries, global_parameters>>

NextSample == NumFitClients \/ NumEvaluationClients

SpecSample == InitSample /\ [][NextSample]_vars

\* ------------------------------------------------------------------ claims
\* The label the ClusterAssignmentMap holds for a client identifier.
InMap(mapping, cid) == HasKey(mapping, "str", cid)

LabelOf(mapping, cid) == mapping.map[cid]

DynamicFitOnNonClusteringRound ==
    /\ call.op = "aggregate_fit"
    /\ dynamic_grouping = 1
    /\ ~IsClusteringRound(call.round)

\* C1: in dynamic grouping mode, an aggregate_fit call on a non-clustering
\* round leaves the label of every client identifier that is in the map both
\* before and after the call as it was, whoever takes part and in any order.
C1_LabelsStable ==
    [][(call'.op = "aggregate_fit" /\ dynamic_grouping = 1
        /\ ~IsClusteringRound(server_round))
       => /\ \A cid \in CIDs :
               (InMap(client_cluster_mapping, cid) /\ InMap(client_cluster_mapping', cid))
               => LabelOf(client_cluster_mapping', cid) = LabelOf(client_cluster_mapping, cid)
          /\ \A i \in 0..MaxClients :
               (HasKey(client_cluster_mapping, "int", i)
                /\ HasKey(client_cluster_mapping', "int", i))
               => client_cluster_mapping'.map[i] = client_cluster_mapping.map[i]]_vars

\* C1 witness: a non-clustering round completed on updates that arrived out
\* of cid order, from clients the map holds with two different labels.
C1_Witness ==
    /\ DynamicFitOnNonClusteringRound
    /\ ret.raised = ""
    /\ Len(call.results) >= 2
    /\ call.results[1].cid > call.results[2].cid
    /\ InMap(client_cluster_mapping, call.results[1].cid)
    /\ InMap(client_cluster_mapping, call.results[2].cid)
    /\ LabelOf(client_cluster_mapping, call.results[1].cid)
         # LabelOf(client_cluster_mapping, call.results[2].cid)

\* The parameters C3 names for a sampled client: its cluster's model when
\* grouping is on, the round is past the first and the client's label has a
\* non-empty model, the global parameters otherwise.
ParametersDueTo(cid, round) ==
    IF /\ dynamic_grouping = 1
       /\ round > 1
       /\ InMap(client_cluster_mapping, cid)
       /\ LabelOf(client_cluster_mapping, cid) \in DOMAIN cluster_models
       /\ cluster_models[LabelOf(client_cluster_mapping, cid)] # None
    THEN cluster_models[LabelOf(client_cluster_mapping, cid)]
    ELSE global_parameters

\* C3: configure_fit never fails, and sends every sampled client its
\* cluster's parameters when grouping is on, the round is past the first and
\* the client's label in the map has a non-empty model, and the global
\* parameters, never a null set, in every other case.
C3_FitParameterSelection ==
    call.op = "configure_fit"
    => /\ ret.raised = ""
       /\ \A i \in DOMAIN ret.value :
            /\ ret.value[i].parameters # None
            /\ ret.value[i].parameters = ParametersDueTo(ret.value[i].cid, call.round)

\* C4: in dynamic grouping mode a client absent from the map gets the global
\* parameters from configure_fit and configure_evaluate, and an aggregate_fit
\* call on a non-clustering round whose results hold such a client's update
\* returns a global model and persists the round's assignment.
C4_UnmappedClientIsNoError ==
    /\ (call.op \in {"configure_fit", "configure_evaluate"} /\ dynamic_grouping = 1)
       => /\ ret.raised = ""
          /\ \A i \in DOMAIN ret.value :
               ~InMap(client_cluster_mapping, ret.value[i].cid)
               => ret.value[i].parameters = global_parameters
    /\ (/\ DynamicFitOnNonClusteringRound
        /\ cluster_labels # None
        /\ \E i \in DOMAIN call.results :
              ~InMap(client_cluster_mapping, call.results[i].cid))
       => /\ ret.raised = ""
          /\ ret.value # None
          /\ call.round \in DOMAIN h5_file
          /\ h5_file[call.round].has_labels
          /\ \E b \in DOMAIN txt_file : txt_file[b].round = call.round

LabelRange == 0..(num_clusters - 1)

\* C5: in dynamic grouping mode, after any sequence of calls, every label the
\* clusterer returned, every label of the round's label array and every label
\* stored in the map is an integer in [0, num_clusters).
C5_LabelsInRange ==
    dynamic_grouping = 1
    => /\ \A i \in DOMAIN cluster_labels : cluster_labels[i] \in LabelRange
       /\ \A k \in DOMAIN client_cluster_mapping.map :
            client_cluster_mapping.map[k] \in LabelRange

\* C5 witness: past a clustering round that split outliers from normal
\* clients, a non-clustering round has used both labels of two clusters.
C5_Witness ==
    /\ DynamicFitOnNonClusteringRound
    /\ ret.raised = ""
    /\ num_clusters = 2
    /\ Range(cluster_labels) = {OutlierLabel, NormalLabel(0)}
    /\ \E cid \in CIDs : /\ InMap(client_cluster_mapping, cid)
                         /\ LabelOf(client_cluster_mapping, cid) = num_clusters - 1

\* C6: the map is left as it is, key set and labels, by an aggregate_fit call
\* on a round that is neither round 1 nor a multiple of clustering_frequency
\* and by every configure_fit, configure_evaluate and aggregate_evaluate call.
C6_MapChangesOnlyOnClusteringRounds ==
    [][(\/ call'.op \in {"configure_fit", "configure_evaluate", "aggregate_evaluate"}
        \/ (call'.op = "aggregate_fit" /\ ~IsClusteringRound(server_round)))
       => client_cluster_mapping' = client_cluster_mapping]_vars

\* C6 witness: the second round of a run with a map was a non-clustering
\* round and went through all four calls, the last one on results.
C6_Witness ==
    /\ call.op = "aggregate_evaluate"
    /\ call.results # <<>>
    /\ call.round = 2
    /\ dynamic_grouping = 1
    /\ ~IsClusteringRound(call.round)
    /\ client_cluster_mapping.kind = "str"
    /\ call.round \in DOMAIN h5_file

\* The blocks of a file of round blocks that belong to a round, and the
\* header lines of the evaluation summary that do.
BlocksOf(file, round) == {b \in DOMAIN file : file[b].round = round}

HeadersOf(lines, round) ==
    {i \in DOMAIN lines : lines[i].kind = "round" /\ lines[i].round = round}

\* aggregate_fit is issued again for a round it has already persisted.
SecondAssignmentWrite ==
    /\ dynamic_grouping = 1
    /\ call.op = "aggregate_fit" /\ call.results # <<>> /\ ret.raised = ""
    /\ call'.op = "aggregate_fit" /\ call'.results # <<>> /\ ret'.raised = ""
    /\ call'.round = call.round
    /\ retries' = retries + 1

\* C2: when aggregate_fit writes a round's assignment a second time, with
\* other data, the h5 store and the text log each hold exactly one block for
\* the round, and it is the data of the second write.
C2_IdempotentAssignmentPersistence ==
    [][SecondAssignmentWrite
       => LET round == call'.round
              ids == SortedSeq({call'.results[i].cid : i \in DOMAIN call'.results})
              labels == [i \in DOMAIN ids |-> LabelOf(client_cluster_mapping', ids[i])]
          IN /\ round \in DOMAIN h5_file'
             /\ h5_file'[round].client_ids = ids
             /\ h5_file'[round].cluster_labels = labels
             /\ Cardinality(BlocksOf(txt_file', round)) = 1
             /\ \A b \in BlocksOf(txt_file', round) :
                  txt_file'[b].entries = [i \in DOMAIN ids |-> <<ids[i], labels[i]>>]]_vars

\* C7: aggregate_fit and aggregate_evaluate on an empty result list return
\* (None, {}) and leave the cluster labels, the map, the cluster models, the
\* assignment store, every metric and score log and the best-model file as
\* they were.
C7_EmptyResultsChangeNothing ==
    [][(call'.op \in {"aggregate_fit", "aggregate_evaluate"} /\ call'.results = <<>>)
       => /\ ret'.raised = ""
          /\ ret'.value = None
          /\ UNCHANGED <<cluster_state, assignment_files, evaluation_files>>]_vars

\* C7 witness: in the second round of a run that has clustered, persisted and
\* logged, both aggregate steps got no results.
C7_Witness ==
    /\ call.op = "aggregate_evaluate"
    /\ call.results = <<>>
    /\ ret.value = None
    /\ call.round = 2
    /\ dynamic_grouping = 1
    /\ client_cluster_mapping.kind = "str"
    /\ DOMAIN h5_file = {1}
    /\ accuracy_file # <<>>
    /\ evaluation_file # <<>>

\* aggregate_evaluate is issued again for a round it has already aggregated.
SecondEvaluation ==
    /\ call.op = "aggregate_evaluate" /\ call.results # <<>> /\ ret.raised = ""
    /\ call'.op = "aggregate_evaluate" /\ call'.results # <<>>
    /\ call'.round = call.round
    /\ retries' = retries + 1

\* C9: when aggregate_evaluate is called a second time for a round, each
\* per-client score log and the evaluation summary hold exactly one block for
\* that round.
C9_EvaluateReissueLeavesOneBlock ==
    [][SecondEvaluation
       => /\ Cardinality(BlocksOf(accuracy_file', call'.round)) = 1
          /\ Cardinality(BlocksOf(f1_score_file', call'.round)) = 1
          /\ Cardinality(BlocksOf(logloss_file', call'.round)) = 1
          /\ Cardinality(HeadersOf(evaluation_file', call'.round)) = 1]_vars

\* The Group lines of a round's block in the evaluation summary: those whose
\* nearest header above is the round's.
HeaderAbove(lines, i) ==
    Max(0, CHOOSE h \in 0..i :
              /\ h = 0 \/ lines[h].kind = "round"
              /\ \A j \in (h + 1)..i : lines[j].kind # "round")

GroupLinesOf(lines, round) ==
    {i \in DOMAIN lines :
        /\ lines[i].kind = "group"
        /\ HeaderAbove(lines, i) # 0
        /\ lines[HeaderAbove(lines, i)].round = round}

\* C8: best-cluster selection returns the group of the requested round's
\* block with the greatest accuracy, the lowest-numbered one among equals, as
\* a 0-based index together with that accuracy.
C8_SelectsBestOfRequestedRound ==
    LET block == GroupLinesOf(evaluation_file, call.round)
        top == CHOOSE i \in block :
                 \A j \in block :
                    \/ evaluation_file[j].accuracy < evaluation_file[i].accuracy
                    \/ /\ evaluation_file[j].accuracy = evaluation_file[i].accuracy
                       /\ evaluation_file[i].group <= evaluation_file[j].group
    IN (call.op = "_select_best_model" /\ block # {})
       => /\ ret.raised = ""
          /\ ret.value = <<evaluation_file[top].group - 1, evaluation_file[top].accuracy>>

\* C10: with dynamic grouping disabled, aggregate_fit on non-empty results
\* returns the element-wise arithmetic mean of the submitted parameter sets,
\* whatever num_examples the clients report: n times the result is the sum
\* of the updates, and [1,1], [3,3], [5,5] give [3,3].
C10_UnweightedMean ==
    (call.op = "aggregate_fit" /\ dynamic_grouping # 1 /\ call.results # <<>>)
    => /\ ret.raised = ""
       /\ \A t \in 1..NumTensors :
            RMulInt(ret.value[t], Len(call.results))
              = RSum([i \in DOMAIN call.results |-> call.results[i].parameters[t]])
       /\ (/\ Len(call.results) = 3
           /\ \A t \in 1..NumTensors :
                {call.results[i].parameters[t] : i \in 1..3} = {R(1), R(3), R(5)})
          => \A t \in 1..NumTensors : ret.value[t] = R(3)

\* C10 witness: the updates [1,1], [3,3], [5,5] came with unequal
\* num_examples and the call returned [3,3].
C10_Witness ==
    /\ call.op = "aggregate_fit"
    /\ dynamic_grouping # 1
    /\ Len(call.results) = 3
    /\ [i \in 1..3 |-> call.results[i].parameters[1]] = <<R(1), R(3), R(5)>>
    /\ [i \in 1..3 |-> call.results[i].num_examples] = <<1, 1, 2>>
    /\ ret.value = [t \in 1..NumTensors |-> R(3)]

\* A clustering round has completed: its assignment is in the text log.
ClusteringRoundCompleted ==
    \E b \in DOMAIN txt_file : IsClusteringRound(txt_file[b].round)

\* C11: in dynamic grouping mode aggregate_fit on non-empty results of a
\* non-clustering round raises "Cluster labels not initialized" exactly when
\* no clustering round has completed before, and then leaves the cluster
\* labels, the map, the cluster models and the assignment files unchanged.
C11_UninitializedClusterState ==
    [][(/\ call'.op = "aggregate_fit"
        /\ dynamic_grouping = 1
        /\ call'.results # <<>>
        /\ ~IsClusteringRound(server_round))
       => /\ (ret'.raised = "ValueError") <=> ~ClusteringRoundCompleted
          /\ ret'.raised = "ValueError"
             => UNCHANGED <<cluster_state, assignment_files>>]_vars

\* C11 witness: round 1 collected nothing, and round 2, not a clustering
\* round, failed on an update for want of cluster labels.
C11_Witness ==
    /\ DynamicFitOnNonClusteringRound
    /\ call.round = 2
    /\ call.results # <<>>
    /\ ret.raised = "ValueError"
    /\ cluster_labels = None
    /\ txt_file = <<>>

\* C12: best-cluster selection for a round raises "No metrics found" when the
\* evaluation summary holds no block for the round or the round's block holds
\* no Group line; it returns no cluster of another round then.
C12_NoMetricsForRound ==
    (call.op = "_select_best_model" /\ GroupLinesOf(evaluation_file, call.round) = {})
    => /\ ret.raised = "ValueError"
       /\ ret.value = None

\* sum(accuracy * num_examples) / sum(num_examples) over the results.
TotalExamples(results) ==
    RSum([i \in DOMAIN results |-> R(results[i].num_examples)])[1]

WeightedAccuracy(results) ==
    Norm(RSum([i \in DOMAIN results |->
                 R(results[i].metrics["accuracy"] * results[i].num_examples)])[1],
         TotalExamples(results))

\* C13: aggregate_evaluate on non-empty results returns, with and without
\* dynamic grouping, the num_examples-weighted mean of the clients'
\* accuracies (here for classification results with examples, and cluster
\* labels where grouping is on).
C13_ReturnsWeightedAccuracy ==
    (/\ call.op = "aggregate_evaluate"
     /\ call.results # <<>>
     /\ model_type = "Image Classification"
     /\ TotalExamples(call.results) > 0
     /\ dynamic_grouping = 1 => cluster_labels # None)
    => /\ ret.raised = ""
       /\ ret.value = WeightedAccuracy(call.results)

\* C14: configure_evaluate returns nothing when fraction_evaluate is 0;
\* otherwise it never fails and sends every sampled client its cluster's
\* parameters when grouping is on, the round is past the first and the
\* client's label in the map has a non-empty model, and the global
\* parameters, never a null set, in every other case.
C14_EvaluateParameterSelection ==
    call.op = "configure_evaluate"
    => /\ ret.raised = ""
       /\ fraction_evaluate[1] = 0 => ret.value = <<>>
       /\ \A i \in DOMAIN ret.value :
            /\ ret.value[i].parameters # None
            /\ ret.value[i].parameters = ParametersDueTo(ret.value[i].cid, call.round)

\* The similarity of a candidate's last tensor to the best model's.
SimilarityToBest(update) ==
    cosine_similarity(LastLayer(best_model_file), LastLayer(update.model))

\* C15: for a non-empty set of candidate updates the detector flags a client
\* whose last-tensor cosine similarity to the best model's last tensor is at
\* most that of every other candidate, and appends exactly one report, which
\* names that client and every candidate's similarity.
C15_FlagsLeastSimilarClient ==
    [][(/\ call'.op = "detect_potential_poisoned_client"
        /\ call'.results # <<>>
        /\ model_type = "Image Classification"
        /\ best_model_file # None)
       => /\ ret'.raised = ""
          /\ Len(poisoned_log_file') = Len(poisoned_log_file) + 1
          /\ SubSeq(poisoned_log_file', 1, Len(poisoned_log_file)) = poisoned_log_file
          /\ LET report == poisoned_log_file'[Len(poisoned_log_file')]
                 updates == call'.results
             IN /\ report.round = call'.round
                /\ DOMAIN report.similarity_scores
                     = {updates[i].client_id : i \in DOMAIN updates}
                /\ \A i \in DOMAIN updates :
                     report.similarity_scores[updates[i].client_id]
                       = SimilarityToBest(updates[i])
                /\ \E i \in DOMAIN updates :
                     /\ updates[i].client_id = report.potential_poisoned_client
                     /\ \A j \in DOMAIN updates :
                          ~RLess(SimilarityToBest(updates[j]),
                                 SimilarityToBest(updates[i]))]_vars

\* C15 witness: with best last tensor [1,0], candidate 0 sent [1,0] and
\* candidate 1 sent [0,1]; client 1 is flagged, with similarities 1 and 0, in
\* a report appended after an earlier one.
C15_Witness ==
    /\ call.op = "detect_potential_poisoned_client"
    /\ ret.raised = ""
    /\ LastLayer(best_model_file) = <<1, 0>>
    /\ Len(call.results) = 2
    /\ call.results[1] = [client_id |-> 0, model |-> ModelEndingIn(<<1, 0>>)]
    /\ call.results[2] = [client_id |-> 1, model |-> ModelEndingIn(<<0, 1>>)]
    /\ Len(poisoned_log_file) = 2
    /\ poisoned_log_file[2].potential_poisoned_client = 1
    /\ poisoned_log_file[2].similarity_scores = (0 :> R(1) @@ 1 :> R(0))

\* floor(n * fraction) for a rational fraction: the largest integer k with
\* k * den <= n * num.
FloorOfProduct(n, fraction) ==
    CHOOSE k \in 0..n : /\ k * fraction[2] <= n * fraction[1]
                        /\ (k + 1) * fraction[2] > n * fraction[1]

\* C16: num_fit_clients(n) and num_evaluation_clients(n) return
\* (max(minX, floor(n * fractionX)), min_available_clients) for every n >= 0
\* and every fraction in [0, 1], and change nothing of the strategy; with
\* n = 10 and a minimum of 2, fraction 1/2 gives 5 and fraction 1/10 gives 2.
C16_SampleSizes ==
    [][/\ call'.op = "num_fit_clients"
          => /\ ret'.raised = ""
             /\ ret'.value[1] >= min_fit_clients
             /\ ret'.value[1] >= FloorOfProduct(call'.results, fraction_fit)
             /\ ret'.value[1] \in {min_fit_clients,
                                   FloorOfProduct(call'.results, fraction_fit)}
             /\ ret'.value[2] = min_available_clients
             /\ (call'.results = 10 /\ min_fit_clients = 2 /\ fraction_fit = <<1, 2>>)
                  => ret'.value[1] = 5
             /\ (call'.results = 10 /\ min_fit_clients = 2 /\ fraction_fit = <<1, 10>>)
                  => ret'.value[1] = 2
       /\ call'.op = "num_evaluation_clients"
          => /\ ret'.raised = ""
             /\ ret'.value[1] >= min_evaluate_clients
             /\ ret'.value[1] >= FloorOfProduct(call'.results, fraction_evaluate)
             /\ ret'.value[1] \in {min_evaluate_clients,
                                   FloorOfProduct(call'.results, fraction_evaluate)}
             /\ ret'.value[2] = min_available_clients
       /\ call'.op \in {"num_fit_clients", "num_evaluation_clients"}
          => UNCHANGED <<config, cluster_state, assignment_files, evaluation_files,
                         server_round, global_parameters>>]_vars

\* C16 witness: num_fit_clients(10) with fraction_fit 1/2 and min_fit_clients 2
\* has returned 5 and a min_available_clients that differs from both.
C16_Witness ==
    /\ call.op = "num_fit_clients"
    /\ call.results = 10
    /\ fraction_fit = <<1, 2>>
    /\ min_fit_clients = 2
    /\ min_available_clients = 3
    /\ ret.value = <<5, 3>>

\* The mean of the updates at the given positions.
MeanOfMembers(results, members) ==
    LET seq == SortedSeq(members)
    IN MeanOfParameters([m \in DOMAIN seq |-> results[seq[m]].parameters])

\* C17: after aggregate_fit in dynamic grouping mode, cluster_models[k] is the
\* unweighted mean of exactly the updates whose resolved label is k, for every
\* label k with a member, and is absent or None for every label k without
\* one, also when a lower-numbered cluster is empty.  The resolved labels are
\* the ones aggregate_fit stores in cluster_labels (line 287).
C17_ClusterModelKeyedByLabel ==
    [][(/\ call'.op = "aggregate_fit"
        /\ dynamic_grouping = 1
        /\ call'.results # <<>>
        /\ ret'.raised = "")
       => LET results == call'.results
              labels == cluster_labels'
          IN \A k \in 0..(num_clusters - 1) :
               LET members == {i \in DOMAIN results : labels[i] = k}
               IN IF members # {}
                  THEN /\ k \in DOMAIN cluster_models'
                       /\ cluster_models'[k] = MeanOfMembers(results, members)
                  ELSE k \in DOMAIN cluster_models' => cluster_models'[k] = None]_vars

\* C18: after aggregate_fit on a clustering round, the label that the map,
\* the h5 group and the text block of the round record for client c is the
\* label the clusterer gave to the update c submitted, in whatever order the
\* results arrived.
C18_RecordedLabelIsOwnLabel ==
    [][(/\ call'.op = "aggregate_fit"
        /\ dynamic_grouping = 1
        /\ call'.results # <<>>
        /\ IsClusteringRound(call'.round)
        /\ ret'.raised = "")
       => \A i \in DOMAIN call'.results :
            LET c == call'.results[i].cid
                own == cluster_labels'[i]
                grp == h5_file'[call'.round]
                block == txt_file'[Len(txt_file')]
            IN /\ HasKey(client_cluster_mapping', "str", c)
               /\ client_cluster_mapping'.map[c] = own
               /\ \E p \in DOMAIN grp.client_ids :
                    grp.client_ids[p] = c /\ grp.cluster_labels[p] = own
               /\ block.round = call'.round
               /\ \E e \in DOMAIN block.entries : block.entries[e] = <<c, own>>]_vars

\* The block of a round in the evaluation summary: its header and the lines
\* below it up to the next header.
BlockOfRound(lines, round) ==
    LET own == SortedSeq({i \in DOMAIN lines :
                            /\ HeaderAbove(lines, i) # 0
                            /\ lines[HeaderAbove(lines, i)].round = round})
    IN [p \in DOMAIN own |-> lines[own[p]]]

\* C19: best-cluster selection for round r depends only on round r's block:
\* on the whole evaluation summary it returns, or raises, what it does on the
\* block of round r alone, whatever other rounds' blocks are in the log.
C19_SelectionDependsOnOwnRound ==
    call.op = "_select_best_model"
    => LET alone == select_best_model(call.round,
                                      BlockOfRound(evaluation_file, call.round))
       IN /\ ret.raised = alone.raised
          /\ alone.raised = "" => ret.value = <<alone.cluster, alone.performance>>

\* C20: with dynamic grouping on, a successful aggregate_evaluate for round r
\* leaves in the best-model file the mean of the updates of the latest fit
\* aggregation whose label is the index best-cluster selection returns for
\* round r; with dynamic grouping off the file is never written.
C20_BestModelIsSelectedClusterMean ==
    [][(/\ call'.op = "aggregate_evaluate"
        /\ call'.results # <<>>
        /\ ret'.raised = "")
       => IF dynamic_grouping = 1
          THEN LET sel == select_best_model(call'.round, evaluation_file')
                   fitted == call'.fitted
                   members == {i \in DOMAIN fitted : cluster_labels[i] = sel.cluster}
               IN /\ sel.raised = ""
                  /\ members # {}
                  /\ best_model_file' = MeanOfMembers(fitted, members)
          ELSE /\ best_model_file = None
               /\ best_model_file' = None]_vars

\* C21: in dynamic grouping mode aggregate_fit runs the clusterer exactly when
\* the results are non-empty and the round is 1 or a multiple of
\* clustering_frequency; on any other round with non-empty results that gets
\* as far as partitioning, update i is partitioned under the map's label for
\* index i, or under the stored label array's entry at position i when the
\* map has no such index.
C21_ClusteringCadence ==
    [][(call'.op = "aggregate_fit" /\ dynamic_grouping = 1)
       => /\ call'.clustered
               <=> /\ call'.results # <<>>
                   /\ (call'.round = 1 \/ call'.round % clustering_frequency = 0)
          /\ (/\ call'.results # <<>>
              /\ ~call'.clustered
              /\ ret'.raised \notin {"ValueError", "IndexError"})
             => cluster_labels'
                  = [i \in 1..Len(call'.results) |->
                       IF HasKey(client_cluster_mapping, "int", i - 1)
                       THEN client_cluster_mapping.map[i - 1]
                       ELSE cluster_labels[i]]]_vars

\* C21 witness: round 2 of a run that clusters every third round aggregated
\* two updates without the clusterer, under the labels round 1 stored.
C21_Witness ==
    /\ call.op = "aggregate_fit"
    /\ dynamic_grouping = 1
    /\ clustering_frequency = 3
    /\ call.round = 2
    /\ ~call.clustered
    /\ Len(call.results) = 2
    /\ ret.raised = ""
    /\ cluster_labels = <<1, 0>>
    /\ cluster_models = (0 :> call.results[2].parameters @@ 1 :> call.results[1].parameters)

\* The labels that have a member among the updates labelled by labels.
LabelsWithMembers(labels) == {labels[i] : i \in DOMAIN labels}

\* C22: in dynamic grouping mode the parameters aggregate_fit returns for
\* non-empty results are the element-wise mean of the cluster means of the
\* clusters that have a member, each such cluster counting once whatever its
\* size: the number of those clusters times the result is the sum of their
\* means.
C22_MeanOfClusterMeans ==
    [][(/\ call'.op = "aggregate_fit"
        /\ dynamic_grouping = 1
        /\ call'.results # <<>>
        /\ ret'.raised = "")
       => LET results == call'.results
              labels == cluster_labels'
              present == SortedSeq(LabelsWithMembers(labels))
              mean(k) == MeanOfMembers(results, {i \in DOMAIN results : labels[i] = k})
          IN /\ LabelsWithMembers(labels) \subseteq 0..(num_clusters - 1)
             /\ \A t \in 1..NumTensors :
                  RMulInt(ret'.value[t], Len(present))
                    = RSum([p \in DOMAIN present |-> mean(present[p])[t]])]_vars

\* C22 witness: the updates [1,1], [3,3], [5,5] fell into a cluster of two
\* and a cluster of one, and the call returned [3.5, 3.5], not their mean 3.
C22_Witness ==
    /\ call.op = "aggregate_fit"
    /\ dynamic_grouping = 1
    /\ ret.raised = ""
    /\ Len(call.results) = 3
    /\ [i \in 1..3 |-> call.results[i].parameters[1]] = <<R(1), R(3), R(5)>>
    /\ cluster_labels = <<1, 1, 0>>
    /\ ret.value = [t \in 1..NumTensors |-> <<7, 2>>]

\* The clients whose average similarity is strictly below the 25th
\* percentile of the average similarities of a matrix of n rows.
BelowLowerQuartile(sim, n) ==
    LET avg == avg_similarities(sim, n)
    IN {i \in 1..n : 4 * avg[i] < Percentile25x4(avg)}

\* C23: when some but not all clients are outliers, the clusterer returns
\* label 0 for every outlier and a label in [1, num_clusters) for every
\* other client, failing only if its KMeans call on the normal clients
\* fails; when no client or every client is an outlier it returns what
\* KMeans returned for all the rows, or fails as KMeans did.
C23_OutliersApart ==
    [][call'.op = "assign_clusters_with_dynamic_threshold"
       => LET n == call'.results.num_clients
              km == call'.results.kmeans
              outliers == BelowLowerQuartile(call'.results.similarity_matrix, n)
          IN /\ ret'.raised = km.raised
             /\ (ret'.raised = "" /\ outliers # {} /\ outliers # 1..n)
                => /\ Len(ret'.value) = n
                   /\ \A i \in 1..n :
                        IF i \in outliers THEN ret'.value[i] = 0
                        ELSE ret'.value[i] \in 1..(num_clusters - 1)
             /\ (ret'.raised = "" /\ (outliers = {} \/ outliers = 1..n))
                => /\ ret'.value = km.labels
                   /\ Len(ret'.value) = n
                   /\ \A i \in 1..n : ret'.value[i] \in 0..(num_clusters - 1)]_vars

\* C23 witness: of three clients the third is the only outlier; it has label
\* 0 and the other two have the labels 1 and 2.
C23_Witness ==
    /\ call.op = "assign_clusters_with_dynamic_threshold"
    /\ num_clusters = 3
    /\ call.results.num_clients = 3
    /\ BelowLowerQuartile(call.results.similarity_matrix, 3) = {3}
    /\ ret.raised = ""
    /\ ret.value = <<1, 2, 0>>

\* The num_examples-weighted average of a metric over some of the results,
\* 0 when they hold no examples.
GroupAverage(results, members, name) ==
    LET seq == SortedSeq(members)
        total == RSum([m \in DOMAIN seq |->
                         R(results[seq[m]].metrics[name] * results[seq[m]].num_examples)])[1]
        examples == RSum([m \in DOMAIN seq |-> R(results[seq[m]].num_examples)])[1]
    IN IF examples > 0 THEN Norm(total, examples) ELSE R(0)

\* C24: in dynamic grouping mode with cluster labels present, aggregate_evaluate
\* on non-empty results appends to the evaluation summary the round's header
\* and exactly num_clusters Group lines, Group-(k+1) holding, to four
\* decimals, the num_examples-weighted averages of the three metrics over the
\* clients c with labels[c mod len(labels)] = k, and 0 where there is no
\* such client or no example.
C24_GroupLinesPerCluster ==
    [][(/\ call'.op = "aggregate_evaluate"
        /\ call'.results # <<>>
        /\ dynamic_grouping = 1
        /\ cluster_labels # None)
       => LET results == call'.results
              before == Len(evaluation_file)
              block == SubSeq(evaluation_file', before + 1, Len(evaluation_file'))
          IN /\ SubSeq(evaluation_file', 1, before) = evaluation_file
             /\ Len(block) = num_clusters + 1
             /\ block[1] = [kind |-> "round", round |-> call'.round]
             /\ \A k \in 0..(num_clusters - 1) :
                  LET members ==
                        {i \in DOMAIN results :
                           cluster_labels[(results[i].cid % Len(cluster_labels)) + 1] = k}
                  IN /\ block[k + 2].kind = "group"
                     /\ block[k + 2].group = k + 1
                     /\ \A name \in {"accuracy", "f1_score", "log_loss"} :
                          block[k + 2][name]
                            = Format4(GroupAverage(results, members, name))]_vars

\* C24 witness: with labels [0, 0, 1], client 0 reported accuracy 0.80 on one
\* example, client 1 0.91 on two and client 2 no example: Group-1 reads
\* 0.8733 and Group-2 reads 0.
C24_Witness ==
    /\ call.op = "aggregate_evaluate"
    /\ dynamic_grouping = 1
    /\ num_clusters = 2
    /\ cluster_labels = <<0, 0, 1>>
    /\ [i \in DOMAIN call.results |-> <<call.results[i].cid, call.results[i].num_examples>>]
         = <<<<0, 1>>, <<1, 2>>, <<2, 0>>>>
    /\ Len(evaluation_file) = 3
    /\ evaluation_file[2].accuracy = 8733
    /\ evaluation_file[3].accuracy = 0

\* C25: the poison detector called on a strategy of another model type than
\* Image Classification raises the unsupported-model-type ValueError and
\* changes nothing: no report is appended, and the strategy's fields and
\* every file stay as they were, whatever the updates and whether or not a
\* best model is on file.
C25_UnsupportedModelType ==
    [][(/\ call'.op = "detect_potential_poisoned_client"
        /\ model_type # "Image Classification")
       => /\ ret'.raised = "ValueError"
          /\ poisoned_log_file' = poisoned_log_file
          /\ UNCHANGED <<config, cluster_state, assignment_files, evaluation_files,
                         server_round, global_parameters>>]_vars

\* C25 witness: the detector was called for anomaly detection with
\* candidate updates and a best model on file, and raised; the log holds the
\* one earlier report.
C25_Witness ==
    /\ call.op = "detect_potential_poisoned_client"
    /\ model_type = "Image Anomaly Detection"
    /\ call.results # <<>>
    /\ best_model_file # None
    /\ ret.raised = "ValueError"
    /\ Len(poisoned_log_file) = 1

\* C26: in dynamic grouping mode the cluster that best-cluster selection
\* picks during aggregate_evaluate is a label that had a member in the latest
\* fit aggregation, and cluster_models holds a model under it: the lookup
\* that follows raises neither a KeyError nor, on a None, an AttributeError.
C26_SelectedClusterHasModel ==
    [][(/\ call'.op = "aggregate_evaluate"
        /\ call'.results # <<>>
        /\ dynamic_grouping = 1
        /\ cluster_labels # None)
       => LET sel == select_best_model(call'.round, evaluation_file')
          IN sel.raised = ""
             => /\ sel.cluster \in LabelsWithMembers(cluster_labels)
                /\ sel.cluster \in DOMAIN cluster_models
                /\ cluster_models[sel.cluster] # None
                /\ ret'.raised \notin {"KeyError", "AttributeError"}]_vars

\* C27: in dynamic grouping mode, whenever aggregate_fit on non-empty results
\* does not fail, some cluster in range(num_clusters) has a member among the
\* updates and the parameters returned are not the zero tensors of the
\* all-clusters-empty fallback.
C27_SomeClusterHasAMember ==
    [][(/\ call'.op = "aggregate_fit"
        /\ dynamic_grouping = 1
        /\ call'.results # <<>>
        /\ ret'.raised = "")
       => /\ Len(cluster_labels') = Len(call'.results)
          /\ \E i \in DOMAIN call'.results : cluster_labels'[i] \in 0..(num_clusters - 1)
          /\ cluster_models' # <<>>
          /\ ret'.value # [t \in 1..NumTensors |-> R(0)]]_vars

\* C27 witness: on a round that is not a clustering round the one update
\* was partitioned under label 1, cluster 0 staying empty, and the call
\* returned that update's parameters.
C27_Witness ==
    /\ call.op = "aggregate_fit"
    /\ dynamic_grouping = 1
    /\ ~call.clustered
    /\ ret.raised = ""
    /\ Len(call.results) = 1
    /\ cluster_labels = <<1>>
    /\ ret.value = call.results[1].parameters

\* C28: every round header in the evaluation summary is followed by a metric
\* line of that round, a Group line or the Aggregated Metrics line, whatever
\* aggregate_evaluate calls were made and however they ended.
C28_NoDanglingHeader ==
    \A i \in DOMAIN evaluation_file :
       evaluation_file[i].kind = "round"
       => /\ i < Len(evaluation_file)
          /\ evaluation_file[i + 1].kind \in {"group", "aggregated"}

====
